---- MODULE Spec2Model ----
(***************************************************************************)
(* Token-tile puzzle generator (precompute_rounds.py) and exact-recall     *)
(* solution search (precompute_full_recall.py).                            *)
(*                                                                         *)
(* JSON values are modelled as tagged records so that every shape the      *)
(* loaders can hand to the code (a non-dict entry, a missing variant, a    *)
(* null variant, a missing or non-list "tokens", a non-string item) is a   *)
(* value of the model.                                                     *)
(***************************************************************************)
EXTENDS Integers, Sequences, FiniteSets, TLC

\* ------------------------------------------------------------------ bounds
MaxWords == 2        \* dictionary entries
MaxTokLen == 2       \* items in one "tokens" list
MaxTiles == 3        \* tiles in one search query
MaxRounds == 2       \* --n_rounds
MaxTargets == 2      \* --k_targets
MaxDistractors == 1  \* --distractors
MaxGenTiles == 4      \* tiles one generation attempt can draw
MaxLines == 2        \* lines of the rounds file
MaxRoundTiles == 2   \* tiles of a round read from the rounds file

\* ------------------------------------------------------------- JSON values
Variants == {"sp", "bow"}      \* argparse choices of --variant
Tokens == {"a", "b"}           \* token strings
NonStr == "~nonstr"            \* stands for any JSON value that is not a string
Items == Tokens \cup {NonStr}
Words == <<"w1", "w2", "w3">>  \* dictionary keys, in lexicographic order

IsStr(t) == t \in Tokens

Range(s) == {s[i] : i \in DOMAIN s}

SeqsUpTo(S, n) == UNION {[1..k -> S] : k \in 0..n}

\* position of a word / token in the lexicographic order of str
WordRank(w) == CHOOSE i \in DOMAIN Words : Words[i] = w
TokRank(t) == IF t = "a" THEN 1 ELSE IF t = "b" THEN 2 ELSE 3

\* the value stored under entry[variant]:
\*   absent    no such key                 null      not a dict
\*   notokens  a dict without "tokens"     notlist   "tokens" is not a list
\*   list      "tokens" is the list `tokens`
VariantVal(kind, toks) == [kind |-> kind, tokens |-> toks]
BadVariantVals == {VariantVal(k, <<>>) : k \in {"absent", "null", "notokens", "notlist"}}

NotADict == [isdict |-> FALSE, sp |-> VariantVal("absent", <<>>), bow |-> VariantVal("absent", <<>>)]
DictEntry(sp, bow) == [isdict |-> TRUE, sp |-> sp, bow |-> bow]

\* ------------------------------------------------------------ is_entry_ok
is_entry_ok(entry, variant) ==
    IF ~entry.isdict THEN FALSE
    ELSE LET v == entry[variant] IN
         IF v.kind \in {"absent", "null"} THEN FALSE
         ELSE /\ v.kind = "list"
              /\ Len(v.tokens) > 0
              /\ \A i \in DOMAIN v.tokens : IsStr(v.tokens[i])

\* ---------------------------------------------------------------- Counter
Occurrences(seq, t) == Cardinality({i \in DOMAIN seq : seq[i] = t})

Counter(seq) == [t \in Range(seq) |-> Occurrences(seq, t)]

Get(m, k, default) == IF k \in DOMAIN m THEN m[k] ELSE default

EmptyMap == [t \in {} |-> <<>>]

\* ---------------------------------------------------------- build_indices
\* idx = len(word_list), taken before the append; n is the 1-based position of
\* the item in dictionary.items()
new_word_index_by_position(wl, n) == n - 1

new_word_index(wl, n) == Len(wl)

\* The index after the first n items of dictionary.items().
RECURSIVE build_indices_upto(_, _, _)
build_indices_upto(dictionary, variant, n) ==
    IF n = 0
    THEN [word_list |-> <<>>, word_token_counters |-> <<>>, token_to_word_ids |-> EmptyMap]
    ELSE LET prev == build_indices_upto(dictionary, variant, n - 1)
             w == dictionary[n].word
             e == dictionary[n].entry
         IN IF ~is_entry_ok(e, variant) THEN prev
            ELSE LET toks == e[variant].tokens
                     c == Counter(toks)
                     idx == new_word_index(prev.word_list, n)
                     old == prev.token_to_word_ids
                 IN [word_list |-> Append(prev.word_list, w),
                     word_token_counters |-> Append(prev.word_token_counters, c),
                     token_to_word_ids |->
                         [t \in DOMAIN old \cup DOMAIN c |->
                             IF t \in DOMAIN c THEN Append(Get(old, t, <<>>), idx)
                             ELSE old[t]]]

build_indices(dictionary, variant) ==
    build_indices_upto(dictionary, variant, Len(dictionary))

\* -------------------------------------------------------- multiset_subset
multiset_subset_as_set(needed, available) ==
    \A t \in DOMAIN needed : Get(available, t, 0) > 0

multiset_subset(needed, available) ==
    \A t \in DOMAIN needed : ~(Get(available, t, 0) < needed[t])

\* -------------------------------------------- compute_solutions_for_round
\* the words in index order, as appended
RECURSIVE sort_words_by_index(_, _)
sort_words_by_index(ids, wl) ==
    IF ids = {} THEN <<>>
    ELSE LET i == CHOOSE i \in ids : \A j \in ids : i <= j
         IN <<wl[i + 1]>> \o sort_words_by_index(ids \ {i}, wl)

\* list.sort() on the words of the accepted candidate indices
RECURSIVE sort_words(_, _)
sort_words(ids, wl) ==
    IF ids = {} THEN <<>>
    ELSE LET i == CHOOSE i \in ids :
                      \A j \in ids : WordRank(wl[i + 1]) <= WordRank(wl[j + 1])
         IN <<wl[i + 1]>> \o sort_words(ids \ {i}, wl)

candidate_ids_first_tile_only(tiles, t2w) ==
    IF tiles = <<>> THEN {} ELSE Range(Get(t2w, tiles[1], <<>>))

candidate_ids(tiles, t2w) ==
    UNION {Range(Get(t2w, t, <<>>)) : t \in DOMAIN Counter(tiles)}

compute_solutions_for_round(tiles, wl, wtc, t2w) ==
    LET tiles_counter == Counter(tiles)
        accepted == {idx \in candidate_ids(tiles, t2w) :
                        multiset_subset(wtc[idx + 1], tiles_counter)}
    IN sort_words(accepted, wl)

\* -------------------------------------------------------- build_word_pool
\* dictionary[w]
EntryOf(dictionary, w) ==
    dictionary[CHOOSE i \in DOMAIN dictionary : dictionary[i].word = w].entry

\* dictionary[w][variant]["tokens"]
TokensOfWord(dictionary, variant, w) == EntryOf(dictionary, w)[variant].tokens

token_length_ok_exclusive_max(n, min_tokens, max_tokens) ==
    min_tokens <= n /\ n < max_tokens

token_length_ok(n, min_tokens, max_tokens) ==
    min_tokens <= n /\ n <= max_tokens

\* the pool after the first n items of dictionary.items()
RECURSIVE build_word_pool_upto(_, _, _, _, _)
build_word_pool_upto(dictionary, variant, min_tokens, max_tokens, n) ==
    IF n = 0 THEN <<>>
    ELSE LET prev == build_word_pool_upto(dictionary, variant, min_tokens, max_tokens, n - 1)
             w == dictionary[n].word
             e == dictionary[n].entry
         IN IF ~is_entry_ok(e, variant) THEN prev
            ELSE IF token_length_ok(Len(e[variant].tokens), min_tokens, max_tokens)
                 THEN Append(prev, w)
                 ELSE prev

build_word_pool(dictionary, variant, min_tokens, max_tokens) ==
    build_word_pool_upto(dictionary, variant, min_tokens, max_tokens, Len(dictionary))

\* ----------------------------------------------------------- pick_targets
\* the guard of `raise ValueError("Pool too small ...")`
pool_too_small(pool_, k_targets) == Len(pool_) < k_targets

\* where control goes when pick_targets raises: main has no handler, the
\* exception leaves the loop and ends the run
on_pool_too_small_retry == "loop"

on_pool_too_small == "fatal_pool_too_small"

\* k draws that may repeat a position (random.choices)
sample_outcomes_with_replacement(pool_, k_targets) ==
    {[i \in 1..k_targets |-> pool_[ix[i]]] : ix \in [1..k_targets -> DOMAIN pool_]}

\* what random.sample(pool, k_targets) can return: k distinct positions of
\* the pool, in selection order
sample_outcomes(pool_, k_targets) ==
    {[i \in 1..k_targets |-> pool_[ix[i]]] :
        ix \in {x \in [1..k_targets -> DOMAIN pool_] :
                   \A i, j \in 1..k_targets : i # j => x[i] # x[j]}}

\* ----------------------------------------------- sample_distractor_tokens
\* what one random.choice(toks) after random.choice(pool) can return
distractor_choices(pool_, dictionary, variant) ==
    UNION {Range(TokensOfWord(dictionary, variant, pool_[i])) : i \in DOMAIN pool_}

\* range(n_distractors) draws; none when n_distractors <= 0
distractor_outcomes(pool_, dictionary, variant, n_distractors) ==
    [1..n_distractors -> distractor_choices(pool_, dictionary, variant)]

\* ----------------------------------------------- round_tiles_from_targets
\* tiles.extend(toks) for each target, in order
RECURSIVE target_tiles_upto(_, _, _, _)
target_tiles_upto(targets, dictionary, variant, n) ==
    IF n = 0 THEN <<>>
    ELSE target_tiles_upto(targets, dictionary, variant, n - 1)
         \o TokensOfWord(dictionary, variant, targets[n])

\* later occurrences of a target's first token are left out
RECURSIVE target_tiles_distinct_upto(_, _, _, _)
target_tiles_distinct_upto(targets, dictionary, variant, n) ==
    IF n = 0 THEN <<>>
    ELSE LET toks == TokensOfWord(dictionary, variant, targets[n])
         IN target_tiles_distinct_upto(targets, dictionary, variant, n - 1)
            \o SelectSeq(toks, LAMBDA t : t # toks[1] \/ Len(toks) = 1)
            \o (IF Len(toks) > 1 THEN <<toks[1]>> ELSE <<>>)

target_tiles_distinct(targets, dictionary, variant) ==
    target_tiles_distinct_upto(targets, dictionary, variant, Len(targets))

target_tiles(targets, dictionary, variant) ==
    target_tiles_upto(targets, dictionary, variant, Len(targets))

target_map_of(targets, dictionary, variant) ==
    [w \in Range(targets) |-> TokensOfWord(dictionary, variant, w)]

\* what random.shuffle(tiles) can leave in tiles: any arrangement
shuffle_outcomes(tl) ==
    {s \in [1..Len(tl) -> Range(tl)] :
        \A t \in Range(tl) : Occurrences(s, t) = Occurrences(tl, t)}

\* ------------------------------------------------------------------- main
\* len(tiles) > args.max_tiles
too_many_tiles_distinct(tl, max_tiles) == Cardinality(Range(tl)) > max_tiles

too_many_tiles(tl, max_tiles) == Len(tl) > max_tiles

\* sorted(...) on (token, count) pairs with distinct tokens
RECURSIVE sort_items(_, _)
sort_items(toks, c) ==
    IF toks = {} THEN <<>>
    ELSE LET t == CHOOSE t \in toks : \A u \in toks : TokRank(t) <= TokRank(u)
         IN <<(<<t, c[t]>>)>> \o sort_items(toks \ {t}, c)

\* a signature that keeps the order of the tiles
signature_unsorted(tl) == [i \in 1..Len(tl) |-> <<tl[i], 1>>]

\* tuple(sorted(Counter(tiles).items()))
signature(tl) == LET c == Counter(tl) IN sort_items(DOMAIN c, c)

\* max_attempts = args.n_rounds * 20
RetryFactor == 20

max_attempts_one_more(n_rounds) == n_rounds * RetryFactor + 1

max_attempts_of(n_rounds) == n_rounds * RetryFactor

\* "round_id": written
next_round_id_by_attempt(written_, attempts_) == attempts_

next_round_id(written_, attempts_) == written_

round_object(id, a, variant, tl, targets, target_map) ==
    [round_id |-> id,
     variant |-> variant,
     tiles |-> tl,
     targets |-> targets,
     target_tokens |-> target_map,
     meta |-> [k_targets |-> a.k_targets, distractors |-> a.distractors,
               min_tokens |-> a.min_tokens, max_tokens |-> a.max_tokens,
               seed |-> a.seed]]

\* after the loop: raise RuntimeError("Only wrote ...") or print
exit_status_always_success(written_, n_rounds) == "success"

exit_status(written_, n_rounds) ==
    IF written_ < n_rounds THEN "fatal_budget" ELSE "success"

\* ------------------------------------------------------------------ state
VARIABLES
    pc,                   \* where the running program is
    dictionary,           \* load_dictionary(args.dict): items in file order
    variant,              \* args.variant
    word_list,            \* build_indices: words, by index
    word_token_counters,  \* build_indices: Counter per word, aligned with word_list
    token_to_word_ids,    \* build_indices: token -> list of word indices
    tiles,                \* the tile list at hand
    solutions,            \* the last result of compute_solutions_for_round
    args,                 \* precompute_rounds: the parsed command line
    pool,                 \* build_word_pool(...)
    seen_signatures,      \* signatures of the accepted rounds
    written,              \* rounds written so far
    attempts,             \* loop iterations so far
    f,                    \* the lines of the output file
    outcome,              \* how the last loop iteration ended
    rng,                  \* the state of the module-level random generator
    run,                  \* 1 in a first run of the generator, 2 in a repeated one
    f_first,              \* the output file as the first run left it
    rounds,               \* precompute_full_recall: the lines of the input rounds file
    yielded,              \* records iter_jsonl has yielded so far
    verify_round_variant  \* args.verify_round_variant

idxVars == <<word_list, word_token_counters, token_to_word_ids, solutions>>
genVars == <<args, pool, seen_signatures, written, attempts, f, outcome>>
detVars == <<rng, run, f_first>>
frVars == <<rounds, yielded, verify_round_variant>>
vars == <<pc, dictionary, variant, idxVars, tiles, genVars, detVars, frVars>>

\* ----------------------------------------------------------------- random
\* The generator of the random module, cut down to a multiplicative
\* congruential generator: a state, a step, and a draw below n.
RngStates == 1..6
rng_next(r) == (3 * r) % 7
rng_below(r, n) == r % n

\* the state random.seed(args.seed) leaves; without the call the state is
\* whatever the process started with
seed_state_unseeded(seed) == rng

seed_state(seed) == (seed % 6) + 1

\* random.choice(seq) from state r
rng_choice(seq, r) == seq[rng_below(r, Len(seq)) + 1]

\* random.sample(pool, k): k draws without replacement
RECURSIVE rng_sample(_, _, _)
rng_sample(rest, k, r) ==
    IF k = 0 THEN [value |-> <<>>, rng |-> r]
    ELSE LET j == rng_below(r, Len(rest)) + 1
             others == [i \in 1..(Len(rest) - 1) |-> IF i < j THEN rest[i] ELSE rest[i + 1]]
             more == rng_sample(others, k - 1, rng_next(r))
         IN [value |-> <<rest[j]>> \o more.value, rng |-> more.rng]

\* sample_distractor_tokens: a pool word, then one of its tokens, n times
RECURSIVE rng_distractors(_, _, _, _, _)
rng_distractors(pool_, dict_, variant_, n, r) ==
    IF n <= 0 THEN [value |-> <<>>, rng |-> r]
    ELSE LET w == rng_choice(pool_, r)
             r2 == rng_next(r)
             t == rng_choice(TokensOfWord(dict_, variant_, w), r2)
             more == rng_distractors(pool_, dict_, variant_, n - 1, rng_next(r2))
         IN [value |-> <<t>> \o more.value, rng |-> more.rng]

\* random.shuffle(tl): position i, from the last down, swaps with a drawn j <= i
RECURSIVE rng_shuffle(_, _, _)
rng_shuffle(tl, i, r) ==
    IF i <= 1 THEN [value |-> tl, rng |-> r]
    ELSE LET j == rng_below(r, i) + 1
             swapped == [tl EXCEPT ![i] = tl[j], ![j] = tl[i]]
         IN rng_shuffle(swapped, i - 1, rng_next(r))

\* the draws of one loop iteration from state r: pick_targets, then
\* round_tiles_from_targets
rng_draws(r) ==
    LET tg == rng_sample(pool, args.k_targets, r)
        ds == rng_distractors(pool, dictionary, variant, args.distractors, tg.rng)
        drawn == target_tiles(tg.value, dictionary, variant) \o ds.value
        sh == rng_shuffle(drawn, Len(drawn), ds.rng)
    IN [targets |-> tg.value, tiles |-> sh.value, rng |-> sh.rng]

\* ---------------------------------------------------------- dictionaries
\* Values under the requested variant: every malformed kind, every token
\* list up to MaxTokLen, and token lists ending in a non-string item.
IndexedVariantVals ==
    BadVariantVals
    \cup {VariantVal("list", s) : s \in SeqsUpTo(Tokens, MaxTokLen)}
    \cup {VariantVal("list", Append(s, NonStr)) : s \in SeqsUpTo(Tokens, MaxTokLen - 1)}

\* An entry holds the value x under v; under the other variant it holds a
\* valid token list exactly when x is not one, so that reading the wrong
\* variant always changes the outcome.
EntryWith(v, x) ==
    LET ok == x.kind = "list" /\ x.tokens # <<>> /\ Range(x.tokens) \subseteq Tokens
        o == IF ok THEN VariantVal("absent", <<>>) ELSE VariantVal("list", <<"b">>)
    IN IF v = "sp" THEN DictEntry(x, o) ELSE DictEntry(o, x)

IndexEntries(v) == {NotADict} \cup {EntryWith(v, x) : x \in IndexedVariantVals}

\* dictionaries of n items keyed Words[1..n]
DictsOver(entries, n) ==
    {[i \in 1..n |-> [word |-> Words[i], entry |-> es[i]]] : es \in [1..n -> entries]}

TileSeqs == SeqsUpTo(Tokens, MaxTiles)

\* the generator's state while the search program runs
NoArgs == [n_rounds |-> 0, k_targets |-> 0, distractors |-> 0, min_tokens |-> 0,
           max_tokens |-> 0, max_tiles |-> 0, ensure_unique_rounds |-> FALSE, seed |-> 0]

\* the enrichment's input while another program runs
FRIdle ==
    /\ rounds = <<>>
    /\ yielded = 0
    /\ verify_round_variant = FALSE

GenIdle ==
    /\ args = NoArgs
    /\ pool = <<>>
    /\ seen_signatures = {}
    /\ written = 0
    /\ attempts = 0
    /\ f = <<>>
    /\ outcome = "none"
    /\ rng = 1
    /\ run = 1
    /\ f_first = <<>>

\* ------------------------------------------- index and search, as called
IndexInit ==
    /\ pc = "index_start"
    /\ variant \in Variants
    /\ dictionary \in UNION {DictsOver(IndexEntries(variant), n) : n \in 0..MaxWords}
    /\ word_list = <<>>
    /\ word_token_counters = <<>>
    /\ token_to_word_ids = EmptyMap
    /\ tiles = <<>>
    /\ solutions = <<>>
    /\ GenIdle
    /\ FRIdle

\* precompute_full_recall.main: the call of build_indices
BuildIndex ==
    /\ pc = "index_start"
    /\ LET ix == build_indices(dictionary, variant) IN
         /\ word_list' = ix.word_list
         /\ word_token_counters' = ix.word_token_counters
         /\ token_to_word_ids' = ix.token_to_word_ids
    /\ pc' = "indexed"
    /\ UNCHANGED <<dictionary, variant, tiles, solutions, genVars, detVars, frVars>>

\* one call of compute_solutions_for_round on the built index; the index is
\* not written after build_indices, so one call per run shows them all
Search ==
    /\ pc = "indexed"
    /\ \E tl \in TileSeqs :
         /\ tiles' = tl
         /\ solutions' = compute_solutions_for_round(
                             tl, word_list, word_token_counters, token_to_word_ids)
    /\ pc' = "searched"
    /\ UNCHANGED <<dictionary, variant, word_list, word_token_counters,
                   token_to_word_ids, genVars, detVars, frVars>>

IndexNext == BuildIndex \/ Search

SpecIndex == IndexInit /\ [][IndexNext]_vars

\* ------------------------ build_word_pool and build_indices, side by side
\* token bounds as given on the command line, an empty range included
PoolArgs ==
    {[NoArgs EXCEPT !.min_tokens = lo, !.max_tokens = hi] :
        lo \in 0..MaxTokLen, hi \in 0..MaxTokLen}

PoolInit ==
    /\ pc = "pool_start"
    /\ variant \in Variants
    /\ dictionary \in UNION {DictsOver(IndexEntries(variant), n) : n \in 0..MaxWords}
    /\ word_list = <<>>
    /\ word_token_counters = <<>>
    /\ token_to_word_ids = EmptyMap
    /\ tiles = <<>>
    /\ solutions = <<>>
    /\ args \in PoolArgs
    /\ pool = <<>>
    /\ seen_signatures = {}
    /\ written = 0
    /\ attempts = 0
    /\ f = <<>>
    /\ outcome = "none"
    /\ rng = 1
    /\ run = 1
    /\ f_first = <<>>
    /\ FRIdle

\* precompute_rounds.main: the call of build_word_pool
BuildPool ==
    /\ pc = "pool_start"
    /\ pool' = build_word_pool(dictionary, variant, args.min_tokens, args.max_tokens)
    /\ pc' = "pooled"
    /\ UNCHANGED <<dictionary, variant, idxVars, tiles, args, seen_signatures, written,
                   attempts, f, outcome, detVars, frVars>>

\* precompute_full_recall.main over the same dictionary and variant: the
\* call of build_indices
IndexForPool ==
    /\ pc = "pooled"
    /\ LET ix == build_indices(dictionary, variant) IN
         /\ word_list' = ix.word_list
         /\ word_token_counters' = ix.word_token_counters
         /\ token_to_word_ids' = ix.token_to_word_ids
    /\ pc' = "pool_indexed"
    /\ UNCHANGED <<dictionary, variant, tiles, solutions, genVars, detVars, frVars>>

PoolNext == BuildPool \/ IndexForPool

SpecPool == PoolInit /\ [][PoolNext]_vars

\* ------------------------------------------------ precompute_rounds.main
\* the run has ended: an exception left main, or the final print was reached
GenDone == pc \in {"fatal_empty_pool", "fatal_pool_too_small", "fatal_budget", "success"}

\* Dictionaries of the generator runs: every token list of 1..MaxTokLen
\* tokens, an entry without the variant and an entry with an empty list.
GenEntries(v) ==
    {EntryWith(v, VariantVal("list", s)) : s \in SeqsUpTo(Tokens, MaxTokLen) \ {<<>>}}
    \cup {EntryWith(v, VariantVal("absent", <<>>))}

\* Command lines of the generator runs.  The tile list of an attempt holds
\* at most k_targets * max_tokens + distractors tiles; runs are kept to
\* those where that is at most MaxGenTiles.
Seeds == {0, 1}

ArgsWithSeeds(seeds) ==
    {a \in [n_rounds : 0..MaxRounds,
            k_targets : 1..MaxTargets,
            distractors : 0..MaxDistractors,
            min_tokens : 1..MaxTokLen,
            max_tokens : 1..MaxTokLen,
            max_tiles : {1, MaxGenTiles},
            ensure_unique_rounds : BOOLEAN,
            seed : seeds] :
        a.k_targets * a.max_tokens + a.distractors <= MaxGenTiles}

GenArgs == ArgsWithSeeds({0})

GenStart ==
    /\ pc = "gen_start"
    /\ variant \in Variants
    /\ dictionary \in UNION {DictsOver(GenEntries(variant), n) : n \in 0..MaxWords}
    /\ pool = <<>>
    /\ seen_signatures = {}
    /\ written = 0
    /\ attempts = 0
    /\ f = <<>>
    /\ outcome = "none"
    /\ tiles = <<>>
    /\ word_list = <<>>
    /\ word_token_counters = <<>>
    /\ token_to_word_ids = EmptyMap
    /\ solutions = <<>>
    /\ run = 1
    /\ f_first = <<>>
    /\ FRIdle

GenInit ==
    /\ GenStart
    /\ args \in GenArgs
    /\ rng = 1

\* `if not pool:` (line 142), the guard of the empty-pool RuntimeError
pool_is_empty_unchecked(pool_) == FALSE

pool_is_empty(pool_) == pool_ = <<>>

\* lines 137-154: seed the generator, build the pool, fail on an empty one,
\* else open the output (mode "w" empties the file)
Setup ==
    /\ pc = "gen_start"
    /\ rng' = seed_state(args.seed)
    /\ LET p == build_word_pool(dictionary, variant, args.min_tokens, args.max_tokens) IN
         /\ pool' = p
         /\ pc' = IF pool_is_empty(p) THEN "fatal_empty_pool" ELSE "loop"
         /\ f' = IF pool_is_empty(p) THEN f ELSE <<>>
    /\ seen_signatures' = {}
    /\ written' = 0
    /\ attempts' = 0
    /\ UNCHANGED <<dictionary, variant, args, outcome, tiles, idxVars, run, f_first, frVars>>

\* the loop body from the shuffled tiles on (lines 168-194)
LoopBody(targets, tl) ==
    /\ tiles' = tl
    /\ IF too_many_tiles(tl, args.max_tiles)
       THEN /\ outcome' = "too_many_tiles"
            /\ UNCHANGED <<seen_signatures, f, written>>
       ELSE IF args.ensure_unique_rounds /\ signature(tl) \in seen_signatures
       THEN /\ outcome' = "duplicate"
            /\ UNCHANGED <<seen_signatures, f, written>>
       ELSE /\ seen_signatures' = IF args.ensure_unique_rounds
                                    THEN seen_signatures \cup {signature(tl)}
                                    ELSE seen_signatures
            /\ f' = Append(f, round_object(next_round_id(written, attempts), args,
                                           variant, tl, targets,
                                           target_map_of(targets, dictionary, variant)))
            /\ written' = written + 1
            /\ outcome' = "accepted"

\* one iteration of the while loop (lines 155-194), its random draws being
\* one of `draws`: the targets, the shuffled tiles and the generator's state
\* after them
Iteration(draws) ==
    /\ pc = "loop"
    /\ written < args.n_rounds /\ attempts < max_attempts_of(args.n_rounds)
    /\ attempts' = attempts + 1
    /\ IF pool_too_small(pool, args.k_targets)
       THEN /\ pc' = on_pool_too_small
            /\ UNCHANGED <<seen_signatures, f, written, outcome, tiles, rng>>
       ELSE /\ pc' = "loop"
            /\ \E d \in draws :
                 /\ LoopBody(d.targets, d.tiles)
                 /\ rng' = d.rng
    /\ UNCHANGED <<dictionary, variant, args, pool, idxVars, run, f_first, frVars>>

\* every result the draws of one iteration can have
AnyDraws ==
    {[targets |-> tg, tiles |-> tl, rng |-> rng] :
        <<tg, tl>> \in
            UNION {{tg} \X shuffle_outcomes(target_tiles(tg, dictionary, variant) \o ds) :
                      <<tg, ds>> \in sample_outcomes(pool, args.k_targets)
                                      \X distractor_outcomes(pool, dictionary, variant,
                                                             args.distractors)}}

Attempt == Iteration(AnyDraws)

\* the loop condition fails (line 155); lines 196-199
LoopExit ==
    /\ pc = "loop"
    /\ ~(written < args.n_rounds /\ attempts < max_attempts_of(args.n_rounds))
    /\ pc' = exit_status(written, args.n_rounds)
    /\ UNCHANGED <<dictionary, variant, args, pool, seen_signatures, written, attempts,
                   f, outcome, tiles, idxVars, detVars, frVars>>

GenNext == Setup \/ Attempt \/ LoopExit

Spec == GenInit /\ [][GenNext]_vars

\* ------------------------------------- the same command line, run twice
\* Runs asked for MaxRounds rounds over the whole token-length range, the
\* draws of every iteration coming from the seeded generator.
DetArgs ==
    {a \in ArgsWithSeeds(Seeds) :
        a.n_rounds = MaxRounds /\ a.min_tokens = 1 /\ a.max_tokens = MaxTokLen}

DetInit ==
    /\ GenStart
    /\ args \in DetArgs
    /\ rng \in RngStates

DetAttempt ==
    Iteration(IF pool_too_small(pool, args.k_targets) THEN {} ELSE {rng_draws(rng)})

\* the first run has ended; the same command line is started again, in a
\* new process, over the output file the first run left
Rerun ==
    /\ GenDone
    /\ run = 1
    /\ run' = 2
    /\ f_first' = f
    /\ pc' = "gen_start"
    /\ rng' \in RngStates
    /\ pool' = <<>>
    /\ seen_signatures' = {}
    /\ written' = 0
    /\ attempts' = 0
    /\ outcome' = "none"
    /\ tiles' = <<>>
    /\ UNCHANGED <<dictionary, variant, args, f, idxVars, frVars>>

DetNext == Setup \/ DetAttempt \/ LoopExit \/ Rerun

SpecDet == DetInit /\ [][DetNext]_vars

\* ------------------------------------------- precompute_full_recall.main
\* A line of the rounds file is blank (whitespace only) or holds a JSON
\* object.  A field of the object that may be missing is kept with a
\* `present` flag; a missing "variant" (r.get gives None) is NoVariant.
NoVariant == "~absent"
Field(present, value) == [present |-> present, value |-> value]

\* the value of r.get("tiles"): absent (None), notlist, or a list of items
TilesVal(kind, items) == [kind |-> kind, items |-> items]

RoundTilesVals ==
    {TilesVal("absent", <<>>), TilesVal("notlist", <<>>),
     TilesVal("list", <<NonStr>>), TilesVal("list", <<"a", NonStr>>)}
    \cup {TilesVal("list", s) : s \in SeqsUpTo(Tokens, MaxRoundTiles)}

\* round records as the generator writes them, and ones that already carry
\* solution fields
RoundRecords ==
    {[round_id |-> 0, variant |-> v, tiles |-> t, targets |-> <<"w1">>,
      all_solutions |-> Field(e, IF e THEN <<"w3">> ELSE <<>>),
      n_solutions |-> Field(e, IF e THEN 1 ELSE 0)] :
        v \in Variants \cup {NoVariant}, t \in RoundTilesVals, e \in BOOLEAN}

BlankLine == [blank |-> TRUE, rec |-> CHOOSE r \in RoundRecords : TRUE]
RecordLine(r) == [blank |-> FALSE, rec |-> r]
Lines == {BlankLine} \cup {RecordLine(r) : r \in RoundRecords}

\* iter_jsonl that ends at the first blank line
RECURSIVE iter_jsonl_until_blank(_)
iter_jsonl_until_blank(lines) ==
    IF lines = <<>> \/ lines[1].blank THEN <<>>
    ELSE <<lines[1].rec>> \o iter_jsonl_until_blank(Tail(lines))

\* the records iter_jsonl yields, in order: `if not line: continue`
RECURSIVE iter_jsonl(_)
iter_jsonl(lines) ==
    IF lines = <<>> THEN <<>>
    ELSE IF lines[1].blank THEN iter_jsonl(Tail(lines))
    ELSE <<lines[1].rec>> \o iter_jsonl(Tail(lines))

variant_mismatch_never(rv, variant_) == FALSE

\* rv != args.variant
variant_mismatch(rv, variant_) == rv # variant_

invalid_tiles_list_only(t) == t.kind # "list"

\* not isinstance(tiles, list) or any(not isinstance(t, str) for t in tiles)
invalid_tiles(t) ==
    \/ t.kind # "list"
    \/ \E i \in DOMAIN t.items : ~IsStr(t.items[i])

\* an enrichment that also rewrites the tiles in sorted order
add_fields_sorting_tiles(r, solutions_) ==
    [r EXCEPT !.tiles = TilesVal("list", [i \in DOMAIN r.tiles.items |->
                            IF i <= Occurrences(r.tiles.items, "a") THEN "a" ELSE "b"]),
              !.all_solutions = Field(TRUE, solutions_),
              !.n_solutions = Field(TRUE, Len(solutions_))]

\* r["all_solutions"] = solutions; r["n_solutions"] = len(solutions)
add_fields(r, solutions_) ==
    [r EXCEPT !.all_solutions = Field(TRUE, solutions_),
              !.n_solutions = Field(TRUE, Len(solutions_))]

\* a dictionary file that lists "w2" before "w1"
FREntries(v) == {EntryWith(v, VariantVal("list", s)) : s \in {<<"a">>, <<"a", "b">>}}

FRDicts(v) ==
    {<<>>} \cup {<<[word |-> "w2", entry |-> e2], [word |-> "w1", entry |-> e1]>> :
                    e1 \in FREntries(v), e2 \in FREntries(v)}

FRInit ==
    /\ pc = "fr_start"
    /\ variant \in Variants
    /\ dictionary \in FRDicts(variant)
    /\ verify_round_variant \in BOOLEAN
    /\ rounds \in SeqsUpTo(Lines, MaxLines)
    /\ yielded = 0
    /\ word_list = <<>>
    /\ word_token_counters = <<>>
    /\ token_to_word_ids = EmptyMap
    /\ tiles = <<>>
    /\ solutions = <<>>
    /\ args = NoArgs
    /\ pool = <<>>
    /\ seen_signatures = {}
    /\ written = 0
    /\ attempts = 0
    /\ f = <<>>
    /\ outcome = "none"
    /\ rng = 1
    /\ run = 1
    /\ f_first = <<>>

\* lines 116-124: build the index, open the output (mode "w")
FRSetup ==
    /\ pc = "fr_start"
    /\ LET ix == build_indices(dictionary, variant) IN
         /\ word_list' = ix.word_list
         /\ word_token_counters' = ix.word_token_counters
         /\ token_to_word_ids' = ix.token_to_word_ids
    /\ written' = 0
    /\ f' = <<>>
    /\ pc' = "fr_loop"
    /\ UNCHANGED <<dictionary, variant, tiles, solutions, args, pool, seen_signatures,
                   attempts, outcome, detVars, frVars>>

\* lines 125-147: one iteration of `for r in iter_jsonl(args.rounds)`
EnrichRound ==
    /\ pc = "fr_loop"
    /\ yielded < Len(iter_jsonl(rounds))
    /\ yielded' = yielded + 1
    /\ LET r == iter_jsonl(rounds)[yielded + 1] IN
         IF verify_round_variant /\ variant_mismatch(r.variant, variant)
         THEN /\ pc' = "fatal_variant"
              /\ UNCHANGED <<tiles, solutions, f, written>>
         ELSE IF invalid_tiles(r.tiles)
         THEN /\ pc' = "fatal_tiles"
              /\ UNCHANGED <<tiles, solutions, f, written>>
         ELSE LET sols == compute_solutions_for_round(
                              r.tiles.items, word_list, word_token_counters,
                              token_to_word_ids)
              IN /\ tiles' = r.tiles.items
                 /\ solutions' = sols
                 /\ f' = Append(f, add_fields(r, sols))
                 /\ written' = written + 1
                 /\ pc' = "fr_loop"
    /\ UNCHANGED <<dictionary, variant, word_list, word_token_counters,
                   token_to_word_ids, args, pool, seen_signatures, attempts, outcome,
                   detVars, rounds, verify_round_variant>>

\* the input is exhausted: the file is closed and the count printed
FRFinish ==
    /\ pc = "fr_loop"
    /\ yielded = Len(iter_jsonl(rounds))
    /\ pc' = "fr_done"
    /\ UNCHANGED <<dictionary, variant, idxVars, tiles, genVars, detVars, frVars>>

FRNext == FRSetup \/ EnrichRound \/ FRFinish

SpecFR == FRInit /\ [][FRNext]_vars

\* ================================================================ claims
\* What the claims speak of, stated directly on the dictionary.
HasValidTokens(entry, v) ==
    /\ entry.isdict
    /\ entry[v].kind = "list"
    /\ entry[v].tokens # <<>>
    /\ Range(entry[v].tokens) \subseteq Tokens

TokensOf(i) == dictionary[i].entry[variant].tokens

ValidItems == {i \in DOMAIN dictionary : HasValidTokens(dictionary[i].entry, variant)}

\* {w : multiset(w.tokens) is a sub-multiset of multiset(tl)}, by direct
\* comparison over every dictionary word
BruteForce(tl) ==
    {dictionary[i].word :
        i \in {j \in ValidItems :
                  \A t \in Tokens : Occurrences(TokensOf(j), t) <= Occurrences(tl, t)}}

Indexed == pc \in {"indexed", "searched"}

\* C1: the result of compute_solutions_for_round on the index of
\* build_indices is exactly the brute-force set of words whose token
\* multiset is covered by the tiles; pruning neither drops nor adds a word.
C1_SearchIsBruteForce ==
    pc = "searched" =>
        /\ Range(solutions) = BruteForce(tiles)
        /\ Len(solutions) = Cardinality(BruteForce(tiles))

\* a search that returned a word while pruning left another indexed word
\* out of the candidate set
C1_Witness ==
    /\ pc = "searched"
    /\ solutions # <<>>
    /\ Cardinality(candidate_ids(tiles, token_to_word_ids)) < Len(word_list)

\* C2: a word holding some token n >= 2 times is not a solution for tiles
\* holding that token fewer than n times.
C2_MultiplicitySensitive ==
    pc = "searched" =>
        \A i \in ValidItems : \A t \in Tokens :
            (/\ Occurrences(TokensOf(i), t) >= 2
             /\ Occurrences(tiles, t) < Occurrences(TokensOf(i), t))
            => dictionary[i].word \notin Range(solutions)

\* a word needing a token twice, searched with tiles that hold every
\* distinct token of the word but that token only once
C2_Witness ==
    /\ pc = "searched"
    /\ \E i \in ValidItems : \E t \in Tokens :
         /\ Occurrences(TokensOf(i), t) >= 2
         /\ Occurrences(tiles, t) = 1
         /\ Range(TokensOf(i)) \subseteq Range(tiles)
         /\ dictionary[i].word \notin Range(solutions)

\* the items of the dictionary that pass is_entry_ok, in file order
RECURSIVE OkWords(_)
OkWords(n) ==
    IF n = 0 THEN <<>>
    ELSE IF is_entry_ok(dictionary[n].entry, variant)
         THEN Append(OkWords(n - 1), dictionary[n].word)
         ELSE OkWords(n - 1)

ItemOf(w) == CHOOSE i \in DOMAIN dictionary : dictionary[i].word = w

\* C9: i is in token_to_word_ids[t] iff word_token_counters[i][t] > 0;
\* word_list holds exactly the words passing is_entry_ok; and
\* word_token_counters[i] is the token multiset of word_list[i].
C9_IndexCorrect ==
    Indexed =>
        /\ word_list = OkWords(Len(dictionary))
        /\ Len(word_token_counters) = Len(word_list)
        /\ \A i \in 0..(Len(word_list) - 1) : \A t \in Items :
              /\ (i \in Range(Get(token_to_word_ids, t, <<>>)))
                    <=> (Get(word_token_counters[i + 1], t, 0) > 0)
              /\ Get(word_token_counters[i + 1], t, 0)
                    = Occurrences(TokensOf(ItemOf(word_list[i + 1])), t)
        /\ \A t \in DOMAIN token_to_word_ids :
              Range(token_to_word_ids[t]) \subseteq 0..(Len(word_list) - 1)

\* an index built from a dictionary with a skipped entry before an
\* accepted one, the accepted word holding a token twice
C9_Witness ==
    /\ Indexed
    /\ \E i \in DOMAIN dictionary : \E j \in DOMAIN dictionary :
         /\ i < j
         /\ ~is_entry_ok(dictionary[i].entry, variant)
         /\ is_entry_ok(dictionary[j].entry, variant)
         /\ \E t \in Tokens : Occurrences(TokensOf(j), t) = 2
    /\ Len(word_list) = 1
    /\ token_to_word_ids # EmptyMap

\* ------------------------------------------------------ generator claims
SameMultiset(s1, s2) == \A t \in Items : Occurrences(s1, t) = Occurrences(s2, t)

\* compute_solutions_for_round(tl) over build_indices(dictionary, variant)
SolutionsOver(tl) ==
    LET ix == build_indices(dictionary, variant)
    IN compute_solutions_for_round(tl, ix.word_list, ix.word_token_counters,
                                   ix.token_to_word_ids)

\* C3: every target of every written round is among the solutions computed
\* for the round's tiles over the same dictionary and variant.
C3_TargetsAreSolutions ==
    \A i \in DOMAIN f :
        Range(f[i].targets) \subseteq Range(SolutionsOver(f[i].tiles))

\* a written round with two targets and a distractor whose tiles were
\* shuffled out of the order they were drawn in
C3_Witness ==
    \E i \in DOMAIN f :
        /\ Len(f[i].targets) = 2
        /\ args.distractors = 1
        /\ f[i].tiles[1] # f[i].target_tokens[f[i].targets[1]][1]

\* C4: every written round has len(tiles) <= max_tiles, and an attempt
\* whose tile list is longer than max_tiles writes nothing.
C4_SizeBound ==
    /\ [](\A i \in DOMAIN f : Len(f[i].tiles) <= args.max_tiles)
    /\ [][(attempts' = attempts + 1 /\ pc' = "loop" /\ Len(tiles') > args.max_tiles)
            => (f' = f /\ written' = written)]_vars

\* an attempt rejected for its size after a round had been written
C4_Witness ==
    /\ outcome = "too_many_tiles"
    /\ Len(tiles) > args.max_tiles
    /\ Len(f) >= 1

\* C5: with ensure_unique_rounds, no two written rounds have the same tile
\* multiset, at any point of the run.
C5_UniqueRounds ==
    args.ensure_unique_rounds =>
        \A i, j \in DOMAIN f : i # j => ~SameMultiset(f[i].tiles, f[j].tiles)

\* two rounds written under ensure_unique_rounds with a duplicate rejected
\* on the way (no attempt can be rejected for its size here)
C5_Witness ==
    /\ args.ensure_unique_rounds
    /\ args.max_tiles = MaxGenTiles
    /\ Len(f) = 2
    /\ attempts > 2

\* C6: the run ends in success only with exactly n_rounds rounds written;
\* with the budget exhausted and fewer written it ends in the fatal error.
C6_NoSilentTruncation ==
    /\ pc = "success" => (written = args.n_rounds /\ Len(f) = args.n_rounds)
    /\ (GenDone /\ pool # <<>> /\ attempts = max_attempts_of(args.n_rounds)
           /\ written < args.n_rounds)
        => pc = "fatal_budget"

\* the budget ran out with some, but not all, rounds written
C6_Witness ==
    /\ pc = "fatal_budget"
    /\ 0 < written /\ written < args.n_rounds
    /\ attempts = max_attempts_of(args.n_rounds)

\* C7: after a run that failed on its retry budget the output holds none
\* of the rounds the run had accepted.
C7_PartialOutputDiscarded ==
    pc = "fatal_budget" => f = <<>>

\* C10 as claimed: whenever the pool holds fewer words than k_targets the
\* run fails with the pool-too-small error and writes no round.
C10_PoolTooSmallAlwaysFails ==
    (GenDone /\ Len(pool) < args.k_targets) =>
        (pc = "fatal_pool_too_small" /\ f = <<>>)

\* C10 amended: with a non-empty pool of fewer than k_targets words and
\* n_rounds >= 1, the run fails with the pool-too-small error at its first
\* attempt, no further attempt is made and no round is written.
C10_PoolTooSmallFails ==
    (pool # <<>> /\ Len(pool) < args.k_targets /\ args.n_rounds >= 1) =>
        /\ f = <<>> /\ written = 0
        /\ attempts <= 1
        /\ pc = "loop" => attempts = 0
        /\ GenDone => (pc = "fatal_pool_too_small" /\ attempts = 1)

\* a run over a pool of one word asked for two targets has failed
C10_Witness ==
    /\ pc = "fatal_pool_too_small"
    /\ Len(pool) = 1
    /\ args.k_targets = 2

\* C8: a run repeated with the same dictionary, parameters and seed writes
\* the same sequence of rounds, record for record.
C8_Deterministic ==
    run = 2 =>
        /\ GenDone => f = f_first
        /\ pc = "loop" =>
              /\ Len(f) <= Len(f_first)
              /\ \A i \in DOMAIN f : f[i] = f_first[i]

\* a repeated run that wrote two rounds, the second after rejected attempts
C8_Witness ==
    /\ run = 2
    /\ pc = "success"
    /\ Len(f) = 2
    /\ attempts > 2
    /\ f[2].tiles # f[1].tiles

\* the generator whose loop is scheduled until it ends: the process runs
\* the while loop of lines 155-194 without outside interruption
FairArgs ==
    {a \in GenArgs : a.distractors = 0 /\ a.min_tokens = 1 /\ a.max_tokens = MaxTokLen}

FairInit ==
    /\ GenStart
    /\ variant = "sp"
    /\ \A i \in DOMAIN dictionary : TokensOf(i) \in {<<"a">>, <<"b">>, <<"a", "b">>}
    /\ args \in FairArgs
    /\ rng = 1

SpecFair == FairInit /\ [][GenNext]_vars /\ WF_vars(GenNext)

\* no dictionary word has a valid token list of min_tokens..max_tokens tokens
NoEligibleWord ==
    \A i \in ValidItems :
        ~(args.min_tokens <= Len(TokensOf(i)) /\ Len(TokensOf(i)) <= args.max_tokens)

\* C11: when no dictionary word is eligible, the run aborts with the
\* empty-pool error before any attempt is made and before any round is
\* written.
C11_EmptyPoolAborts ==
    (pc # "gen_start" /\ NoEligibleWord) =>
        /\ pc = "fatal_empty_pool"
        /\ attempts = 0 /\ written = 0
        /\ f = <<>>

\* the run over a dictionary with valid words, none within the token
\* bounds, has aborted
C11_Witness ==
    /\ pc = "fatal_empty_pool"
    /\ ValidItems # {}
    /\ NoEligibleWord

\* C16: attempts never exceed 20 * n_rounds, written never exceeds attempts
\* nor n_rounds, no iteration follows the n_rounds-th written round, every
\* step of the loop uses up an attempt or leaves the loop, and the run
\* eventually ends.
C16_BoundedRetry ==
    /\ [](/\ attempts <= RetryFactor * args.n_rounds
          /\ written <= attempts
          /\ written <= args.n_rounds)
    /\ [][pc = "loop" =>
            \/ (pc' = "loop" /\ attempts' = attempts + 1 /\ written < args.n_rounds)
            \/ (pc' # "loop" /\ GenDone')]_vars
    /\ <>GenDone

\* the loop was left on the n_rounds-th round with attempts to spare, after
\* a rejected attempt
C16_Witness ==
    /\ pc = "success"
    /\ written = args.n_rounds /\ args.n_rounds = 2
    /\ written < attempts
    /\ attempts < max_attempts_of(args.n_rounds)

\* tiles beyond the targets' own tokens, per token
Extra(r, t) ==
    Occurrences(r.tiles, t)
    - Occurrences(target_tiles(r.targets, dictionary, variant), t)

\* C18: in every written round the targets are k_targets distinct pool
\* words, target_tokens holds each target's dictionary token sequence in
\* order, and the tiles are the targets' tokens plus exactly n_distractors
\* tokens of pool words.
C18_RoundComposition ==
    \A i \in DOMAIN f :
        LET r == f[i] IN
        /\ Len(r.targets) = args.k_targets
        /\ Cardinality(Range(r.targets)) = args.k_targets
        /\ Range(r.targets) \subseteq Range(pool)
        /\ DOMAIN r.target_tokens = Range(r.targets)
        /\ \A w \in Range(r.targets) : r.target_tokens[w] = TokensOf(ItemOf(w))
        /\ \A t \in Tokens : Extra(r, t) >= 0
        /\ \A t \in Tokens :
              Extra(r, t) > 0 =>
                  \E j \in DOMAIN pool : t \in Range(TokensOf(ItemOf(pool[j])))
        /\ Extra(r, "a") + Extra(r, "b") = args.distractors
        /\ Range(r.tiles) \subseteq Tokens
        /\ Len(r.tiles) = Len(target_tiles(r.targets, dictionary, variant))
                             + args.distractors

\* a written round of two targets with different tokens and a distractor
C18_Witness ==
    \E i \in DOMAIN f :
        /\ Len(f[i].targets) = 2
        /\ args.distractors = 1
        /\ Len(f[i].tiles) = 3
        /\ f[i].target_tokens[f[i].targets[1]] # f[i].target_tokens[f[i].targets[2]]

\* C19: the j-th written round, counting from 0, carries round_id j.
C19_RoundIds ==
    \A i \in DOMAIN f : f[i].round_id = i - 1

\* two rounds written with a rejected attempt between them
C19_Witness ==
    /\ Len(f) = 2
    /\ attempts > 2
    /\ outcome = "accepted"

\* the items with a non-empty list of strings of min_tokens..max_tokens
\* tokens under the variant
EligibleItems ==
    {i \in ValidItems :
        args.min_tokens <= Len(TokensOf(i)) /\ Len(TokensOf(i)) <= args.max_tokens}

\* C17: build_word_pool returns exactly the words whose entry holds, under
\* the variant, a non-empty list of strings of min_tokens..max_tokens tokens
\* (inclusive), each once; the other entries are skipped; and every pool
\* word is in the word list of build_indices for the same dictionary and
\* variant.
C17_PoolEligibility ==
    pc \in {"pooled", "pool_indexed"} =>
        /\ Range(pool) = {dictionary[i].word : i \in EligibleItems}
        /\ Len(pool) = Cardinality(EligibleItems)
        /\ pc = "pool_indexed" => Range(pool) \subseteq Range(word_list)

\* pool and index built over a dictionary of two valid words, one of
\* exactly max_tokens tokens in the pool, the other too short for it
C17_Witness ==
    /\ pc = "pool_indexed"
    /\ Len(word_list) = 2
    /\ Len(pool) = 1
    /\ Len(TokensOf(ItemOf(pool[1]))) = args.max_tokens
    /\ args.min_tokens = args.max_tokens

\* ----------------------------------------------------- enrichment claims
\* the input records: the non-blank lines of the rounds file, in order
InputRecords ==
    LET nb == SelectSeq(rounds, LAMBDA l : ~l.blank)
    IN [i \in DOMAIN nb |-> nb[i].rec]

\* C12 (as stated): every field the input record had is in the enriched
\* record with an unchanged value.
C12_AppendOnly ==
    \A i \in DOMAIN f :
        LET r == InputRecords[i] IN
        /\ f[i].round_id = r.round_id
        /\ f[i].variant = r.variant
        /\ f[i].tiles = r.tiles
        /\ f[i].targets = r.targets
        /\ r.all_solutions.present => f[i].all_solutions = r.all_solutions
        /\ r.n_solutions.present => f[i].n_solutions = r.n_solutions

\* C12 (amended): every field of the input record other than all_solutions
\* and n_solutions is in the enriched record with an unchanged value, and
\* the enriched record holds all_solutions and n_solutions.
C12_OtherFieldsUnchanged ==
    \A i \in DOMAIN f :
        LET r == InputRecords[i] IN
        /\ f[i].round_id = r.round_id
        /\ f[i].variant = r.variant
        /\ f[i].tiles = r.tiles
        /\ f[i].targets = r.targets
        /\ f[i].all_solutions.present
        /\ f[i].n_solutions.present

\* a record with unsorted tiles and no variant field, without solution
\* fields on input, was enriched
C12_Witness ==
    \E i \in DOMAIN f :
        /\ f[i].tiles.items = <<"b", "a">>
        /\ f[i].variant = NoVariant
        /\ ~InputRecords[i].all_solutions.present
        /\ f[i].n_solutions.value = 2

\* C13: in every enriched record all_solutions is in ascending order
\* without repetition and n_solutions is its length.
C13_SolutionsSorted ==
    \A i \in DOMAIN f :
        LET s == f[i].all_solutions.value IN
        /\ \A j \in DOMAIN s : \A k \in DOMAIN s :
               j < k => WordRank(s[j]) < WordRank(s[k])
        /\ f[i].n_solutions.value = Len(s)

\* two solutions, listed in the dictionary in descending order
C13_Witness ==
    \E i \in DOMAIN f :
        /\ f[i].all_solutions.value = <<"w1", "w2">>
        /\ word_list = <<"w2", "w1">>

\* the input records declaring a variant other than the requested one
DeclaredMismatches ==
    {i \in DOMAIN InputRecords : InputRecords[i].variant \in Variants \ {variant}}

Least(S) == CHOOSE i \in S : \A j \in S : i <= j

\* C14: with verify_round_variant set and an input round declaring another
\* variant, the run never completes; the first mismatching round and the
\* rounds after it are never written, and the run is in the fatal state as
\* soon as that round is read.
C14_VariantMismatchAborts ==
    (verify_round_variant /\ DeclaredMismatches # {}) =>
        LET m == Least(DeclaredMismatches) IN
        /\ pc # "fr_done"
        /\ yielded <= m
        /\ Len(f) < m /\ written < m
        /\ yielded = m => pc = "fatal_variant"

\* the second round declares the other variant: the first is written, the
\* run has aborted
C14_Witness ==
    /\ pc = "fatal_variant"
    /\ yielded = 2
    /\ Len(f) = 1
    /\ 2 \in DeclaredMismatches

\* the input records without a list of strings under "tiles"
Malformed ==
    {i \in DOMAIN InputRecords :
        LET t == InputRecords[i].tiles IN
        \/ t.kind = "absent"
        \/ t.kind = "notlist"
        \/ \E k \in DOMAIN t.items : t.items[k] \notin Tokens}

\* C15: with a malformed input round the run never completes; the first
\* malformed round and the rounds after it are never written, and the run
\* is in a fatal state as soon as that round is read.
C15_MalformedRoundAborts ==
    Malformed # {} =>
        LET m == Least(Malformed) IN
        /\ pc # "fr_done"
        /\ yielded <= m
        /\ Len(f) < m /\ written < m
        /\ yielded = m => pc \in {"fatal_tiles", "fatal_variant"}
        /\ (yielded = m /\ ~verify_round_variant) => pc = "fatal_tiles"

\* the second round holds a non-string tile after a string one: the first
\* round is written, the run has aborted
C15_Witness ==
    /\ pc = "fatal_tiles"
    /\ yielded = 2
    /\ Len(f) = 1
    /\ InputRecords[2].tiles.items = <<"a", NonStr>>

\* C20: on completion the output holds one record per input record, in
\* the input's order, each the input record with the solutions of its own
\* tiles.
C20_StreamKept ==
    pc = "fr_done" =>
        /\ Len(f) = Len(InputRecords)
        /\ written = Len(InputRecords)
        /\ \A i \in DOMAIN f :
             /\ f[i].round_id = InputRecords[i].round_id
             /\ f[i].variant = InputRecords[i].variant
             /\ f[i].tiles = InputRecords[i].tiles
             /\ f[i].targets = InputRecords[i].targets
             /\ Range(f[i].all_solutions.value) = BruteForce(InputRecords[i].tiles.items)

\* a completed run over two records with different tiles and different
\* solutions
C20_Witness ==
    /\ pc = "fr_done"
    /\ Len(f) = 2
    /\ f[1].tiles # f[2].tiles
    /\ f[1].all_solutions # f[2].all_solutions

====
